---- MODULE Spec2Model ----
(***************************************************************************)
(* Trajectory prediction (RK4 over the flight equations) and the terrain   *)
(* collision scan of SyntheticVisionMath.                                   *)
(*                                                                         *)
(* Numbers.  The program computes in floating point; the model computes in *)
(* exact rational arithmetic.  A number is a record [w, n, d] standing for *)
(* w + n/d with 0 <= n < d and gcd(n, d) = 1, so equal values are equal    *)
(* records and the whole part never multiplies a large denominator.        *)
(* Angles of the state vector are kept as multiples of pi (the value       *)
(* 1/4 stands for pi/4 radians), which makes np.degrees a multiplication   *)
(* by 180.                                                                 *)
(***************************************************************************)
EXTENDS Integers, Sequences, FiniteSets, TLC

VARIABLES
    pc,             \* position of predict_from_point: "call", "scan", "done"
    initial_state,  \* test.py:82  the caller's state vector
    env,            \* the elevation store, the image library and the tiling library
    trajectory,     \* test.py:95  list returned by predict_trajectory
    tlog,           \* times handed to rk4_step, in call order
    idx,            \* test.py:102 next index of the for loop
    evaluated,      \* indices handed to check_collision, in call order
    levels,         \* warning level computed for each evaluated point
    reports,        \* the warnings printed at test.py:108-110
    queries,        \* store queries issued (cursor.execute at terrain_checker.py:79)
    broke,          \* TRUE once the break at test.py:114 was taken
    call            \* function harness: the call made and what it returned

vars == <<pc, initial_state, env, trajectory, tlog, idx, evaluated, levels,
          reports, queries, broke, call>>

-----------------------------------------------------------------------------
(* Exact arithmetic *)

Abs(x) == IF x < 0 THEN -x ELSE x

RECURSIVE GCD(_, _)
GCD(a, b) == IF b = 0 THEN a ELSE GCD(b, a % b)

\* The number N/D (D > 0) in normal form.
Q(N, D) ==
    LET r == N % D
        g == GCD(D, r)
    IN  [w |-> N \div D, n |-> r \div g, d |-> D \div g]

RInt(k) == [w |-> k, n |-> 0, d |-> 1]
Zero == RInt(0)

\* Improper numerator of a (over a.d).
Num(a) == a.w * a.d + a.n

RAdd(a, b) ==
    LET g == GCD(a.d, b.d)
        L == (a.d \div g) * b.d
        N == a.n * (L \div a.d) + b.n * (L \div b.d)
        f == Q(N, L)
    IN  [w |-> a.w + b.w + f.w, n |-> f.n, d |-> f.d]

RNeg(a) == IF a.n = 0 THEN [w |-> -a.w, n |-> 0, d |-> 1]
           ELSE [w |-> -a.w - 1, n |-> a.d - a.n, d |-> a.d]

RSub(a, b) == RAdd(a, RNeg(b))

RMul(a, b) ==
    LET A  == Num(a)
        B  == Num(b)
        g1 == GCD(b.d, Abs(A))
        g2 == GCD(a.d, Abs(B))
    IN  Q((A \div g1) * (B \div g2), (a.d \div g2) * (b.d \div g1))

\* a / b for b # 0.
RDiv(a, b) ==
    LET B == Num(b)
        s == IF B < 0 THEN -1 ELSE 1
    IN  RMul(a, Q(s * b.d, Abs(B)))

RLt(a, b) ==
    \/ a.w < b.w
    \/ /\ a.w = b.w
       /\ LET g == GCD(a.d, b.d)
          IN  a.n * (b.d \div g) < b.n * (a.d \div g)

RLe(a, b) == a = b \/ RLt(a, b)

\* Python int(x): truncation toward zero.
Trunc(a) == IF a.w >= 0 \/ a.n = 0 THEN a.w ELSE a.w + 1

\* numpy array arithmetic: elementwise sum and scalar multiple.
VAdd(u, v) == [k \in 1..Len(u) |-> RAdd(u[k], v[k])]
VScale(c, v) == [k \in 1..Len(v) |-> RMul(c, v[k])]

-----------------------------------------------------------------------------
(* equation_of_flight.py *)

\* self.g = 9.81
G == Q(981, 100)

\* calculate_derivatives on the states the model flies: wings level
\* (roll = pitch = 0) with no horizontal body velocity (Vx = Vy = 0).  There
\* R = Rz(heading), so v_earth = (0, 0, Vz) and R.T @ (0, 0, -g) = (0, 0, -g),
\* v_horiz = 0 is not above 1e-6 and d_heading is 0.  Every stage of an RK4
\* step stays in this set of states, and on it the formula is rational.
calculate_derivatives(state, t) ==
    LET Vz      == state[6]
        roll    == state[7]
        pitch   == state[8]
        d_lat   == Zero                        \* v_earth[0] * lat_scale
        d_lon   == Zero                        \* v_earth[1] * lon_scale
        d_alt   == Vz                          \* v_earth[2]
        d_roll  == RMul(Q(-1, 2), roll)        \* -0.5 * roll
        d_pitch == RMul(Q(-3, 10), pitch)      \* -0.3 * pitch
    IN  << d_lat, d_lon, d_alt, Zero, Zero, RNeg(G), d_roll, d_pitch, Zero >>

\* A derivative function handed to rk4_step: the flight equations
\* (self.equations.calculate_derivatives), or the linear test function
\* f(s, t) = k * s.
FlightEquations == [kind |-> "flight", k |-> Zero]
Linear(k) == [kind |-> "linear", k |-> k]

\* derivatives(state, t)
Apply(derivatives, state, t) ==
    IF derivatives.kind = "flight" THEN calculate_derivatives(state, t)
    ELSE VScale(derivatives.k, state)

-----------------------------------------------------------------------------
(* RK4.py *)

rk4_step_k3_from_k1(derivatives, state, dt, t) ==
    LET h2 == RDiv(dt, RInt(2))
        k1 == Apply(derivatives, state, t)
        s2 == VAdd(state, VScale(h2, k1))
        k2 == Apply(derivatives, s2, RAdd(t, h2))
        s3 == VAdd(state, VScale(h2, k1))
        k3 == Apply(derivatives, s3, RAdd(t, h2))
        s4 == VAdd(state, VScale(dt, k3))
        k4 == Apply(derivatives, s4, RAdd(t, dt))
        sum == VAdd(VAdd(k1, VScale(RInt(2), k2)), VAdd(VScale(RInt(2), k3), k4))
    IN  [ret   |-> VAdd(state, VScale(RDiv(dt, RInt(6)), sum)),
         calls |-> << [s |-> state, t |-> t], [s |-> s2, t |-> RAdd(t, h2)],
                      [s |-> s3, t |-> RAdd(t, h2)], [s |-> s4, t |-> RAdd(t, dt)] >>]

\* One classical Runge-Kutta step.  ret is the returned array; calls lists the
\* arguments of the calls of derivatives, in the order they are made.
rk4_step(derivatives, state, dt, t) ==
    LET h2 == RDiv(dt, RInt(2))
        k1 == Apply(derivatives, state, t)
        s2 == VAdd(state, VScale(h2, k1))
        k2 == Apply(derivatives, s2, RAdd(t, h2))
        s3 == VAdd(state, VScale(h2, k2))
        k3 == Apply(derivatives, s3, RAdd(t, h2))
        s4 == VAdd(state, VScale(dt, k3))
        k4 == Apply(derivatives, s4, RAdd(t, dt))
        sum == VAdd(VAdd(k1, VScale(RInt(2), k2)), VAdd(VScale(RInt(2), k3), k4))
    IN  [ret   |-> VAdd(state, VScale(RDiv(dt, RInt(6)), sum)),
         calls |-> << [s |-> state, t |-> t], [s |-> s2, t |-> RAdd(t, h2)],
                      [s |-> s3, t |-> RAdd(t, h2)], [s |-> s4, t |-> RAdd(t, dt)] >>]


-----------------------------------------------------------------------------
(* trajectory_prediction.py *)

\* The for loop of predict_trajectory, from its k-th iteration on.
RECURSIVE PredictLoop(_, _, _, _, _, _, _)
PredictLoop(state, t, traj, times, k, steps, dt) ==
    IF k >= steps THEN [trajectory |-> traj, tlog |-> times]
    ELSE LET next == rk4_step(FlightEquations, state, dt, t).ret
         IN  PredictLoop(next, RAdd(t, dt), Append(traj, next),
                         Append(times, t), k + 1, steps, dt)

predict_trajectory_extra_step(s0, dt, prediction_time) ==
    PredictLoop(s0, Zero, << s0 >>, << >>, 0,
                Trunc(RDiv(prediction_time, dt)) + 1, dt)

\* predict_trajectory: the returned list and the times given to rk4_step.
predict_trajectory(s0, dt, prediction_time) ==
    PredictLoop(s0, Zero, << s0 >>, << >>, 0,
                Trunc(RDiv(prediction_time, dt)), dt)

-----------------------------------------------------------------------------
(* terrain_checker.py: the tiled store *)

\* _get_tile_coords(lat, lon, zoom: int = 14)
ZOOM == 14

RECURSIVE Pow2(_)
Pow2(k) == IF k = 0 THEN 1 ELSE 2 * Pow2(k - 1)

\* Optional values: None, or a value.
None == [some |-> FALSE, v |-> 0]
Some(x) == [some |-> TRUE, v |-> x]

\* 'tile' in col.lower(), on the column names the stores of the model use.
HasTile(col) == col \in {"tile_column", "tile_row", "tile_data", "tile_id"}

\* Index of the first column whose name contains 'tile' (0: there is none).
RECURSIVE FirstTileColumnFrom(_, _)
FirstTileColumnFrom(columns, k) ==
    IF k > Len(columns) THEN 0
    ELSE IF HasTile(columns[k]) THEN k
    ELSE FirstTileColumnFrom(columns, k + 1)

FirstTileColumn(columns) == FirstTileColumnFrom(columns, 1)

\* Index of the first table with such a column (0: there is none): the loop
\* over tables with its break.
RECURSIVE FirstTileTableFrom(_, _)
FirstTileTableFrom(tables, k) ==
    IF k > Len(tables) THEN 0
    ELSE IF FirstTileColumn(tables[k].columns) # 0 THEN k
    ELSE FirstTileTableFrom(tables, k + 1)

Columns(table) == {table.columns[k] : k \in 1..Len(table.columns)}

\* The y the store is asked for: (1 << z) - 1 - y.
FlipRowNoMinusOne(y, z) == Pow2(z) - y

FlipRow(y, z) == Pow2(z) - 1 - y

\* _get_tile_data.  ret is the value returned (None, or Some cell of the row);
\* queries lists the parameters of the tile queries executed.  Every
\* exception inside is caught and turned into None:  an error of the store
\* (store.io_error, raised by the first execute) and a query naming a column
\* the table does not have.
_get_tile_data(store, x, y, z) ==
    LET row_y == FlipRow(y, z)
        t     == FirstTileTableFrom(store.tables, 1)
        table == store.tables[t]
        q     == << z, x, row_y >>
        found == {r \in store.rows : /\ r.zoom_level = z
                                     /\ r.tile_column = x
                                     /\ r.tile_row = row_y}
        row   == CHOOSE r \in found : TRUE
        col   == table.columns[FirstTileColumn(table.columns)]
    IN  IF store.io_error THEN [ret |-> None, queries |-> << >>]
        ELSE IF t = 0 THEN [ret |-> None, queries |-> << >>]
        ELSE IF ~({"zoom_level", "tile_column", "tile_row"} \subseteq Columns(table))
             THEN [ret |-> None, queries |-> << q >>]
        ELSE IF found = {} THEN [ret |-> None, queries |-> << q >>]
        ELSE [ret |-> Some(row.cells[col]), queries |-> << q >>]

-----------------------------------------------------------------------------
(* The tiling library (mercantile) and the image library (PIL), which the   *)
(* repository imports.  Longitude is linear in the Web-Mercator scheme and  *)
(* is computed; latitude is not, so the rows of the scheme are a table:     *)
(* the north and south edge, to five decimals of a degree, of the rows the  *)
(* model's latitudes fall in and of the rows their flipped indices name.    *)

\* A number of degrees given in 1/100000 of a degree.
Deg5(n) == Q(n, 100000)

MercatorRows ==
    (0     :> [north |-> Deg5(8505113),  south |-> Deg5(8504923)])  @@
    (1421  :> [north |-> Deg5(8147604),  south |-> Deg5(8147278)])  @@
    (4757  :> [north |-> Deg5(6000997),  south |-> Deg5(5999899)])  @@
    (6093  :> [north |-> Deg5(4182046),  south |-> Deg5(4180408)])  @@
    (10290 :> [north |-> Deg5(-4180408), south |-> Deg5(-4182046)]) @@
    (11626 :> [north |-> Deg5(-5999899), south |-> Deg5(-6000997)]) @@
    (14962 :> [north |-> Deg5(-8147278), south |-> Deg5(-8147604)]) @@
    (16383 :> [north |-> Deg5(-8504923), south |-> Deg5(-8505113)])

\* mercantile.tile(lon, lat, zoom).x: floor((lon / 360 + 1/2) * 2^zoom),
\* held within 0 .. 2^zoom - 1.
TileX(lon, zoom) ==
    LET xf == RAdd(RDiv(lon, RInt(360)), Q(1, 2))
    IN  IF RLe(xf, Zero) THEN 0
        ELSE IF RLe(RInt(1), xf) THEN Pow2(zoom) - 1
        ELSE RMul(xf, RInt(Pow2(zoom))).w

\* mercantile.tile(lon, lat, zoom).y: the row holding lat, held within
\* 0 .. 2^zoom - 1 (a latitude north of row 0 gets row 0, one south of the
\* last row gets the last row).
TileY(lat, zoom) ==
    IF RLt(MercatorRows[0].south, lat) THEN 0
    ELSE IF RLe(lat, MercatorRows[Pow2(zoom) - 1].north) THEN Pow2(zoom) - 1
    ELSE CHOOSE y \in DOMAIN MercatorRows :
            RLt(MercatorRows[y].south, lat) /\ RLe(lat, MercatorRows[y].north)

\* self._get_tile_coords(lat, lon)
_get_tile_coords(lat, lon) == << TileX(lon, ZOOM), TileY(lat, ZOOM), ZOOM >>

\* mercantile.bounds(x, y, z)
Bounds(x, y, z) ==
    LET step == Q(360, Pow2(z))
    IN  [west  |-> RSub(RMul(RInt(x), step), RInt(180)),
         east  |-> RSub(RMul(RInt(x + 1), step), RInt(180)),
         north |-> MercatorRows[y].north,
         south |-> MercatorRows[y].south]

\* img.getpixel((px, py)).  PIL raises IndexError for a coordinate outside
\* the image; releases since 4.2 first read a negative coordinate as counted
\* from the far edge (x < 0 stands for width + x), older ones do not, so
\* negative_index says which the installed library does.
GetPixel(img, px, py, negative_index) ==
    LET x == IF px < 0 /\ negative_index = "wrap" THEN img.width + px ELSE px
        y == IF py < 0 /\ negative_index = "wrap" THEN img.height + py ELSE py
    IN  IF x < 0 \/ x >= img.width \/ y < 0 \/ y >= img.height THEN None
        ELSE Some(img.pix[<< x, y >>])

-----------------------------------------------------------------------------
(* terrain_checker.py: elevation, clearance, warning level *)

DecodeElevationBase255(r, g, b) ==
    RAdd(RInt(-10000), RMul(RInt(r * 255 * 255 + g * 255 + b), Q(1, 10)))

\* elevation = -10000 + ((r * 256 * 256 + g * 256 + b) * 0.1)
DecodeElevation(r, g, b) ==
    RAdd(RInt(-10000), RMul(RInt(r * 256 * 256 + g * 256 + b), Q(1, 10)))

\* The outcome of get_elevation's try block.  exc names the exception it
\* ends with ("" when it returns); ret is the value returned; tile the
\* coordinates of line 110; queries the tile queries made; bounds_args the
\* arguments given to mercantile.bounds and pixel the coordinate given to
\* getpixel (both empty when not reached).
Outcome(exc, ret, c, td, bounds_args, pixel) ==
    [exc |-> exc, ret |-> ret, tile |-> c, queries |-> td.queries,
     bounds_args |-> bounds_args, pixel |-> pixel]

\* Lines 126-130: r, g, b = <the pixel read>; decode and return.  A
\* coordinate outside the image raises IndexError in getpixel, a pixel of
\* another shape than three channels raises in the unpacking.
ElevationOfPixel(c, td, img, at, pixel) ==
    IF ~pixel.some THEN Outcome("IndexError", None, c, td, c, at)
    ELSE IF img.mode # "RGB" THEN Outcome("ValueError", None, c, td, c, at)
    ELSE Outcome("", Some(DecodeElevation(pixel.v[1], pixel.v[2], pixel.v[3])),
                 c, td, c, at)

\* Line 126: img.getpixel((px, py))
ElevationAt(e, c, td, img, px, py) ==
    ElevationOfPixel(c, td, img, << px, py >>,
                     GetPixel(img, px, py, e.negative_index))

\* Lines 122-123: the pixel of the point inside the tile of bounds bbox.
ElevationInBounds(e, lat, lon, c, td, img, bbox) ==
    ElevationAt(e, c, td, img,
        Trunc(RMul(RDiv(RSub(lon, bbox.west), RSub(bbox.east, bbox.west)),
                   RInt(img.width))),
        Trunc(RMul(RDiv(RSub(lat, bbox.north), RSub(bbox.south, bbox.north)),
                   RInt(img.height))))

\* Lines 114-121: no tile gives None; Image.open raises on anything that is
\* not an image; bbox = mercantile.bounds(x, y, z) with the x, y, z of line 110.
ElevationOfTileData(e, lat, lon, c, td) ==
    IF ~td.ret.some THEN Outcome("", None, c, td, << >>, << >>)
    ELSE IF td.ret.v.kind # "png" THEN Outcome("Image.open", None, c, td, << >>, << >>)
    ELSE ElevationInBounds(e, lat, lon, c, td, td.ret.v.img, Bounds(c[1], c[2], c[3]))

\* Line 113: tile_data = self._get_tile_data(x, y, z)
ElevationOfTile(e, lat, lon, c) ==
    ElevationOfTileData(e, lat, lon, c, _get_tile_data(e.store, c[1], c[2], c[3]))

\* The try block of get_elevation, from line 110 on.
GetElevationTry(e, lat, lon) == ElevationOfTile(e, lat, lon, _get_tile_coords(lat, lon))

\* `except Exception: return None` applied to an outcome of the try block;
\* raised says whether an exception leaves the method.
\* (the first definition is the method without its except clause)
ExceptNotCaught(r) ==
    [ret |-> r.ret, raised |-> r.exc # "", caught |-> "", tile |-> r.tile,
     queries |-> r.queries, bounds_args |-> r.bounds_args, pixel |-> r.pixel]

ExceptReturnNone(r) ==
    [ret |-> IF r.exc # "" THEN None ELSE r.ret, raised |-> FALSE,
     caught |-> r.exc, tile |-> r.tile, queries |-> r.queries,
     bounds_args |-> r.bounds_args, pixel |-> r.pixel]

get_elevation(e, lat, lon) == ExceptReturnNone(GetElevationTry(e, lat, lon))

\* Distances: float('inf'), or a finite number.
Inf == [inf |-> TRUE, v |-> Zero]
Fin(x) == [inf |-> FALSE, v |-> x]

\* np.degrees of an angle kept as a multiple of pi.
Degrees(a) == RMul(a, RInt(180))

\* The coverage test of check_collision:
\* 41.81104 <= lat <= 81.47299 and 19.3951 <= lon <= 46.43616
InCoverageAlways(lat, lon) == TRUE

InCoverage(lat, lon) ==
    /\ RLe(Deg5(4181104), lat) /\ RLe(lat, Deg5(8147299))
    /\ RLe(Deg5(1939510), lon) /\ RLe(lon, Deg5(4643616))

\* What check_collision returns.  has and dist are the pair returned;
\* elev_calls counts the calls of get_elevation and queries lists the tile
\* queries they made; raised says whether an exception leaves the method.
Checked(has, dist, elev_calls, qs, raised) ==
    [has |-> has, dist |-> dist, elev_calls |-> elev_calls, queries |-> qs,
     raised |-> raised]

\* Lines 156-157: distance_to_terrain and the pair returned.
ClearanceNonPositive(distance, el) == Checked(RLe(distance, Zero), Fin(distance), 1, el.queries, FALSE)

Clearance(distance, el) == Checked(RLt(distance, Zero), Fin(distance), 1, el.queries, FALSE)

\* Lines 152-157, given what get_elevation returned.
AfterElevation(alt, el) ==
    IF el.raised THEN Checked(FALSE, Inf, 1, el.queries, TRUE)
    ELSE IF ~el.ret.some THEN Checked(FALSE, Inf, 1, el.queries, FALSE)
    ELSE Clearance(RSub(alt, el.ret.v), el)

\* Lines 147-157, with lat and lon in degrees.
CheckCollisionAt(e, lat, lon, alt) ==
    IF ~InCoverage(lat, lon) THEN Checked(FALSE, Inf, 0, << >>, FALSE)
    ELSE AfterElevation(alt, get_elevation(e, lat, lon))

check_collision(e, point) ==
    CheckCollisionAt(e, Degrees(point[1]), Degrees(point[2]), point[3])

\* distance > k
DistGt(distance, k) == distance.inf \/ RLt(RInt(k), distance.v)

get_collision_warning_level_ge(distance) ==
    IF distance.inf \/ RLe(RInt(1000), distance.v) THEN 0
    ELSE IF RLe(RInt(500), distance.v) THEN 1
    ELSE IF RLe(RInt(200), distance.v) THEN 2
    ELSE 3

get_collision_warning_level(distance) ==
    IF DistGt(distance, 1000) THEN 0
    ELSE IF DistGt(distance, 500) THEN 1
    ELSE IF DistGt(distance, 200) THEN 2
    ELSE 3

-----------------------------------------------------------------------------
(* Environments: what the store holds and which image library is installed *)

\* Side of the square tile images (256 in a real store).
ImgSize == 2

\* Steps of a bounded prediction run (6000 in test.py:95-99, from
\* prediction_time = 60.0 and dt = 0.01).
HorizonSteps == 4

\* An image whose pixel (x, y) decodes to (y * width + x) meters.
Image(mode) ==
    [width |-> ImgSize, height |-> ImgSize, mode |-> mode,
     pix |-> [c \in (0..ImgSize - 1) \X (0..ImgSize - 1) |->
                 << 1, 134, 160 + 10 * (c[2] * ImgSize + c[1]) >>]]

Png(mode) == [kind |-> "png", img |-> Image(mode), v |-> 0]
Junk == [kind |-> "junk", img |-> Image("RGB"), v |-> 0]
IntCell(k) == [kind |-> "int", img |-> Image("RGB"), v |-> k]

Metadata == [name |-> "metadata", columns |-> << "name", "value" >>]
DataFirst == << Metadata, [name |-> "tiles", columns |->
                 << "tile_data", "zoom_level", "tile_column", "tile_row" >>] >>
Standard == << Metadata, [name |-> "tiles", columns |->
                 << "zoom_level", "tile_column", "tile_row", "tile_data" >>] >>
ImagesOnly == << Metadata, [name |-> "images", columns |-> << "tile_data", "tile_id" >>] >>

\* Tile columns and (stored, flipped) rows of the tiles the store holds.
StoredColumns == {0, 9074, 9557, 10305, 16383}
StoredRows == {10290, 11626, 14962, 16383, 0}

\* The rows of a store: one per stored tile, every cell a row can be read by.
Rows(blob) ==
    {[zoom_level |-> ZOOM, tile_column |-> x, tile_row |-> y,
      tile_data |-> blob, cells |-> [c \in {"zoom_level", "tile_column", "tile_row",
                                            "tile_data"} |->
           CASE c = "tile_data" -> blob
             [] c = "zoom_level" -> IntCell(ZOOM)
             [] c = "tile_column" -> IntCell(x)
             [] c = "tile_row" -> IntCell(y)]]
        : x \in StoredColumns, y \in StoredRows}

Store(tables, rows, io_error) == [tables |-> tables, rows |-> rows, io_error |-> io_error]

Stores ==
    { Store(DataFirst, Rows(Png("RGB")), FALSE),
      Store(DataFirst, Rows(Png("RGBA")), FALSE),
      Store(DataFirst, Rows(Junk), FALSE),
      Store(DataFirst, {}, FALSE),
      Store(DataFirst, Rows(Png("RGB")), TRUE),
      Store(Standard, Rows(Png("RGB")), FALSE),
      Store(ImagesOnly, Rows(Png("RGB")), FALSE),
      Store(<< Metadata >>, {}, FALSE),
      Store(<< >>, {}, FALSE) }

Envs == [store : Stores, negative_index : {"wrap", "raise"}]

-----------------------------------------------------------------------------
(* math/test.py: predict_from_point *)

\* np.radians of a number of degrees, as a multiple of pi.
Radians(a) == RDiv(a, RInt(180))

\* The state vector built from a row of navigation data (test.py:82-92), for
\* rows with roll = pitch = 0 and Vx = Vy = 0.
InitialState(lat, lon, alt, vz, heading) ==
    << Radians(lat), Radians(lon), alt, Zero, Zero, vz, Radians(Zero), Radians(Zero),
       Radians(heading) >>

\* Rows of navigation data the runs start from: latitude, longitude, altitude
\* and vertical speed.
NavLats == {Deg5(6000000), Deg5(4181103)}
NavLons == {RInt(30)}
NavAlts == {RInt(-1), Q(9, 2), RInt(100), Q(405, 2), RInt(250), RInt(1003)}
NavVz == {Zero, RInt(-100)}

NavStates ==
    {InitialState(lat, lon, alt, vz, RInt(90)) :
        lat \in NavLats, lon \in NavLons, alt \in NavAlts, vz \in NavVz}

\* dt=0.01 of the call at test.py:97, and the bounded prediction_time.
PredictDt == Q(1, 100)
PredictionTime == Q(HorizonSteps, 100)

\* time = i * 0.1  (test.py:107)
ReportTime(i) == RMul(RInt(i), Q(1, 10))

NoCall == [fn |-> "none", args |-> << >>, ret |-> << >>]

Init ==
    /\ pc = "call"
    /\ initial_state \in NavStates
    /\ env \in Envs
    /\ trajectory = << >>
    /\ tlog = << >>
    /\ idx = 0
    /\ evaluated = << >>
    /\ levels = << >>
    /\ reports = << >>
    /\ queries = << >>
    /\ broke = FALSE
    /\ call = NoCall

\* What the calls of a run return, tabulated once for the runs of the model
\* (@@ makes each table an explicit one): predict_trajectory for every row
\* of navigation data, and check_collision for every terrain environment and
\* every point of those trajectories.
Predicted ==
    [s0 \in NavStates |-> predict_trajectory(s0, PredictDt, PredictionTime)] @@ << >>

ScanPoints ==
    UNION {{Predicted[s0].trajectory[k] : k \in 1..Len(Predicted[s0].trajectory)} :
              s0 \in NavStates}

Collisions ==
    [c \in Envs \X ScanPoints |-> check_collision(c[1], c[2])] @@ << >>

\* test.py:95-99  trajectory = predictor.predict_trajectory(...)
Predict ==
    /\ pc = "call"
    /\ LET r == Predicted[initial_state]
       IN  /\ trajectory' = r.trajectory
           /\ tlog' = r.tlog
    /\ pc' = "scan"
    /\ UNCHANGED << initial_state, env, idx, evaluated, levels, reports, queries,
                    broke, call >>

\* What the report of one iteration adds to the printed warnings.
ReportAlways(i, level, distance) ==
    << [i |-> i, time |-> ReportTime(i), level |-> level, distance |-> distance] >>

Report(i, level, distance) ==
    IF level > 0
    THEN << [i |-> i, time |-> ReportTime(i), level |-> level, distance |-> distance] >>
    ELSE << >>

\* Whether the loop goes on to the next point after this one.
ContinuesAlways(has_collision) == TRUE

Continues(has_collision) == ~has_collision

\* test.py:104-114, given what check_collision returned for point i and the
\* warning level of its distance.
ScanPoint(i, cc, warning_level) ==
    /\ evaluated' = Append(evaluated, i)
    /\ levels' = Append(levels, warning_level)
    /\ queries' = queries \o cc.queries
    /\ reports' = reports \o Report(i, warning_level, cc.dist)
    /\ IF Continues(cc.has)
       THEN /\ idx' = i + 1
            /\ pc' = "scan"
            /\ broke' = broke
       ELSE /\ idx' = i
            /\ pc' = "done"
            /\ broke' = TRUE

\* test.py:103-104
ScanChecked(i, cc) == ScanPoint(i, cc, get_collision_warning_level(cc.dist))

\* test.py:102-114  one iteration of `for i, point in enumerate(trajectory)`
ScanStep ==
    /\ pc = "scan"
    /\ idx < Len(trajectory)
    /\ ScanChecked(idx, Collisions[env, trajectory[idx + 1]])
    /\ UNCHANGED << initial_state, env, trajectory, tlog, call >>

\* test.py:116  the loop is exhausted; return trajectory
ScanEnd ==
    /\ pc = "scan"
    /\ idx >= Len(trajectory)
    /\ pc' = "done"
    /\ UNCHANGED << initial_state, env, trajectory, tlog, idx, evaluated, levels,
                    reports, queries, broke, call >>

Next == Predict \/ ScanStep \/ ScanEnd

Spec == Init /\ [][Next]_vars

\* The program is sequential: a step that can be taken is taken.
FairSpec == Spec /\ WF_vars(Next)

-----------------------------------------------------------------------------
(* Function harness: one call of a function of the repository on arguments *)
(* drawn from bounded sets.                                                *)

Idle ==
    /\ pc = "idle"
    /\ initial_state = << >>
    /\ env = << >>
    /\ trajectory = << >>
    /\ tlog = << >>
    /\ idx = 0
    /\ evaluated = << >>
    /\ levels = << >>
    /\ reports = << >>
    /\ queries = << >>
    /\ broke = FALSE

FnInit == Idle /\ call = NoCall

\* The harness makes one call and keeps what it returned.
Made(fn, args, ret) == [fn |-> fn, args |-> args, ret |-> ret]

\* Clearances, in half meters.
HalfMeters ==
    {-100, -1, 0, 1, 4000} \cup (397..403) \cup (997..1003) \cup (1997..2003)

Clearances == {Fin(Q(h, 2)) : h \in HalfMeters} \cup {Inf}

CallLevel ==
    /\ call.fn = "none"
    /\ \E c \in Clearances :
        call' = Made("get_collision_warning_level", << c >>,
                     get_collision_warning_level(c))
    /\ UNCHANGED << pc, initial_state, env, trajectory, tlog, idx, evaluated, levels,
                    reports, queries, broke >>

\* Channel values of a pixel.
Channels == {0, 1, 10, 20, 30, 134, 160, 255}

CallDecode ==
    /\ call.fn = "none"
    /\ \E r \in Channels, g \in Channels, b \in Channels :
        call' = Made("decode", << r, g, b >>, DecodeElevation(r, g, b))
    /\ UNCHANGED << pc, initial_state, env, trajectory, tlog, idx, evaluated, levels,
                    reports, queries, broke >>

\* Linear test equations f(s, t) = k * s and the steps taken on them.
LinearKs == {Q(-1, 2), RInt(-3), RInt(1), RInt(2)}
LinearStates == {<< RInt(1) >>, << RInt(3), RInt(-2) >>, << Q(1, 5), Zero, RInt(7) >>}
StepDts == {Q(1, 10), Q(1, 2), RInt(1)}
StepTs == {Zero, Q(3, 2)}

CallRk4 ==
    /\ call.fn = "none"
    /\ \E k \in LinearKs, s \in LinearStates, dt \in StepDts, t \in StepTs :
        call' = Made("rk4_step", << k, s, dt, t >>, rk4_step(Linear(k), s, dt, t))
    /\ UNCHANGED << pc, initial_state, env, trajectory, tlog, idx, evaluated, levels,
                    reports, queries, broke >>

\* Arguments of predict_trajectory.
PredictStates ==
    {InitialState(RInt(60), RInt(30), alt, vz, RInt(90)) :
        alt \in {RInt(100), Q(9, 2)}, vz \in {Zero, RInt(-100)}}
PredictDts == {Q(1, 100), Q(1, 10), Q(3, 10), Q(1, 2)}
PredictTimes == {Q(1, 20), Q(1, 10), Q(1, 4), Q(1, 2), RInt(1)}

CallPredict ==
    /\ call.fn = "none"
    /\ \E s0 \in PredictStates, dt \in PredictDts, T \in PredictTimes :
        call' = Made("predict_trajectory", << s0, dt, T >>,
                     predict_trajectory(s0, dt, T))
    /\ UNCHANGED << pc, initial_state, env, trajectory, tlog, idx, evaluated, levels,
                    reports, queries, broke >>

\* Points handed to check_collision: latitude and longitude in 1/100000 of
\* a degree, around the edges of the coverage box.
PointLats == {4181103, 4181104, 6000000, 8147299, 8147300, 8505250}
PointLons == {1939500, 1939510, 3000000, 4643616, 4643617}
PointAlts == {RInt(-20000), RInt(-1), RInt(1), RInt(2), Q(5, 2), RInt(3), RInt(5000)}

CallCheckCollision ==
    /\ call.fn = "none"
    /\ \E e \in Envs, lat \in PointLats, lon \in PointLons, alt \in PointAlts :
        call' = Made("check_collision", << e, lat, lon, alt >>,
                     check_collision(e, InitialState(Deg5(lat), Deg5(lon), alt,
                                                     Zero, Zero)))
    /\ UNCHANGED << pc, initial_state, env, trajectory, tlog, idx, evaluated, levels,
                    reports, queries, broke >>

\* Coordinates handed to get_elevation.
ElevationLats == PointLats \cup {-8506000}
ElevationLons == PointLons \cup {-18001500, 18050000}

CallGetElevation ==
    /\ call.fn = "none"
    /\ \E e \in Envs, lat \in ElevationLats, lon \in ElevationLons :
        call' = Made("get_elevation", << e, lat, lon >>,
                     get_elevation(e, Deg5(lat), Deg5(lon)))
    /\ UNCHANGED << pc, initial_state, env, trajectory, tlog, idx, evaluated, levels,
                    reports, queries, broke >>

FnNext ==
    \/ CallLevel
    \/ CallDecode
    \/ CallRk4
    \/ CallPredict
    \/ CallCheckCollision
    \/ CallGetElevation

FnSpec == FnInit /\ [][FnNext]_vars

-----------------------------------------------------------------------------
(* Claims *)

TableLevel(h) ==
    IF h > 2000 THEN 0
    ELSE IF 1000 < h /\ h <= 2000 THEN 1
    ELSE IF 400 < h /\ h <= 1000 THEN 2
    ELSE 3

\* A finite clearance of the harness, in half meters.
HalfMetersOf(c) == 2 * c.v.w + c.v.n

\* C2: get_collision_warning_level gives every clearance the level of the
\* table (> 1000: 0, (500, 1000]: 1, (200, 500]: 2, <= 200: 3, infinity: 0),
\* so 1000, 500 and 200 meters get 1, 2 and 3, and no smaller clearance gets
\* a lower level.
C2_LevelTable ==
    call.fn = "get_collision_warning_level" =>
        LET c == call.args[1]
        IN  /\ call.ret \in 0..3
            /\ c.inf => call.ret = 0
            /\ ~c.inf => call.ret = TableLevel(HalfMetersOf(c))
            /\ c = Fin(RInt(1000)) => call.ret = 1
            /\ c = Fin(RInt(500)) => call.ret = 2
            /\ c = Fin(RInt(200)) => call.ret = 3
            /\ \A h \in HalfMeters :
                  (c.inf \/ h <= HalfMetersOf(c)) => TableLevel(h) >= call.ret

\* The boundary clearance of exactly 1000 meters gets LOW.
C2_Witness ==
    /\ call.fn = "get_collision_warning_level"
    /\ call.args[1] = Fin(RInt(1000))
    /\ call.ret = 1

\* Whether a point given in 1/100000 of a degree lies outside the coverage
\* box 41.81104 .. 81.47299 by 19.3951 .. 46.43616.
OutsideBox(lat5, lon5) ==
    \/ lat5 < 4181104 \/ lat5 > 8147299
    \/ lon5 < 1939510 \/ lon5 > 4643616

\* C3: for a point outside the coverage box check_collision returns
\* (False, inf) whatever the altitude, without calling get_elevation and
\* without a query to the store.
C3_OutsideCoverage ==
    (call.fn = "check_collision" /\ OutsideBox(call.args[2], call.args[3])) =>
        /\ call.ret.has = FALSE
        /\ call.ret.dist = Inf
        /\ call.ret.elev_calls = 0
        /\ call.ret.queries = << >>
        /\ ~call.ret.raised

\* A point just north of the box, 20 km below sea level, over a store that
\* holds its tile.
C3_Witness ==
    /\ call.fn = "check_collision"
    /\ call.args[1].store = Store(DataFirst, Rows(Png("RGB")), FALSE)
    /\ call.args[2] = 8147300
    /\ call.args[3] = 3000000
    /\ call.args[4] = RInt(-20000)
    /\ call.ret.dist = Inf

\* The one store of the model a lookup can succeed on; every other one
\* shows a failure mode: no tile for the coordinates, no tile table, a table
\* without the queried columns, a store error, a cell that is no image, an
\* image whose pixels are no (R, G, B) triples.
Readable(st) ==
    /\ ~st.io_error
    /\ st.tables = DataFirst
    /\ st.rows # {}
    /\ \A row \in st.rows :
          row.tile_data.kind = "png" /\ row.tile_data.img.mode = "RGB"

\* Whether a pixel coordinate lies outside [0, width) x [0, height).
PixelOutside(at) ==
    /\ at # << >>
    /\ ~(at[1] \in 0..(ImgSize - 1) /\ at[2] \in 0..(ImgSize - 1))

\* C4: get_elevation never raises, and every failure mode of the lookup -
\* among them a pixel index outside [0, width) x [0, height) - gives None;
\* check_collision then returns (False, inf), whose warning level is 0.
C4_FailuresAreUnknown ==
    /\ call.fn = "get_elevation" =>
          /\ ~call.ret.raised
          /\ ~Readable(call.args[1].store) => ~call.ret.ret.some
          /\ PixelOutside(call.ret.pixel) => ~call.ret.ret.some
    /\ (call.fn = "check_collision" /\ ~Readable(call.args[1].store)) =>
          /\ ~call.ret.raised
          /\ call.ret.has = FALSE
          /\ call.ret.dist = Inf
          /\ get_collision_warning_level(call.ret.dist) = 0

\* C4 without the negative pixel indices the image library reads from the
\* far edge: what of the claim the code does keep.
C4_ExceptNegativeIndex ==
    /\ call.fn = "get_elevation" =>
          /\ ~call.ret.raised
          /\ ~Readable(call.args[1].store) => ~call.ret.ret.some
          /\ (/\ PixelOutside(call.ret.pixel)
              /\ \/ call.args[1].negative_index = "raise"
                 \/ call.ret.pixel[1] >= ImgSize \/ call.ret.pixel[1] < -ImgSize
                 \/ call.ret.pixel[2] >= ImgSize \/ call.ret.pixel[2] < -ImgSize)
             => ~call.ret.ret.some
    /\ (call.fn = "check_collision" /\ ~Readable(call.args[1].store)) =>
          /\ ~call.ret.raised
          /\ call.ret.has = FALSE
          /\ call.ret.dist = Inf
          /\ get_collision_warning_level(call.ret.dist) = 0

\* C5: a pixel (R, G, B) decodes to -10000 + (R*65536 + G*256 + B) * 0.1
\* meters, that is (R*65536 + G*256 + B - 100000) / 10; no other pixel
\* decodes to the same elevation, and (10, 20, 30) decodes to 56051.
C5_Decode ==
    call.fn = "decode" =>
        LET r == call.args[1]
            g == call.args[2]
            b == call.args[3]
        IN  /\ call.ret = Q(r * 65536 + g * 256 + b - 100000, 10)
            /\ call.args = << 10, 20, 30 >> => call.ret = RInt(56051)
            /\ \A r2 \in Channels, g2 \in Channels, b2 \in Channels :
                  << r2, g2, b2 >> # call.args => DecodeElevation(r2, g2, b2) # call.ret

C5_Witness ==
    /\ call.fn = "decode"
    /\ call.args = << 10, 20, 30 >>
    /\ call.ret = RInt(56051)

\* 1 + z/2,  1 + z/2 + z^2/4,  1 + z + z^2/2 + z^3/4  and
\* 1 + z + z^2/2 + z^3/6 + z^4/24.
Stage2(z) == RAdd(RInt(1), RDiv(z, RInt(2)))
Stage3(z) == RAdd(Stage2(z), RDiv(RMul(z, z), RInt(4)))
Stage4(z) ==
    RAdd(RAdd(RInt(1), z),
         RAdd(RDiv(RMul(z, z), RInt(2)), RDiv(RMul(z, RMul(z, z)), RInt(4))))
Exp4(z) ==
    RAdd(RAdd(RAdd(RInt(1), z), RDiv(RMul(z, z), RInt(2))),
         RAdd(RDiv(RMul(z, RMul(z, z)), RInt(6)),
              RDiv(RMul(RMul(z, z), RMul(z, z)), RInt(24))))

\* C8: rk4_step calls the derivative function four times, at (s, t), then
\* at the two midpoint states with t + dt/2, then at the endpoint state with
\* t + dt; for f(s, t) = k * s and z = k * dt those states are s, s(1 + z/2),
\* s(1 + z/2 + z^2/4), s(1 + z + z^2/2 + z^3/4) and the value returned is
\* s(1 + z + z^2/2 + z^3/6 + z^4/24).
C8_Rk4Linear ==
    call.fn = "rk4_step" =>
        LET k  == call.args[1]
            s  == call.args[2]
            dt == call.args[3]
            t  == call.args[4]
            z  == RMul(k, dt)
            th == RAdd(t, RDiv(dt, RInt(2)))
        IN  /\ Len(call.ret.calls) = 4
            /\ call.ret.calls[1] = [s |-> s, t |-> t]
            /\ call.ret.calls[2] = [s |-> VScale(Stage2(z), s), t |-> th]
            /\ call.ret.calls[3] = [s |-> VScale(Stage3(z), s), t |-> th]
            /\ call.ret.calls[4] = [s |-> VScale(Stage4(z), s), t |-> RAdd(t, dt)]
            /\ call.ret.ret = VScale(Exp4(z), s)

C8_Witness ==
    /\ call.fn = "rk4_step"
    /\ call.args[1] = Q(-1, 2)
    /\ call.args[2] = << RInt(3), RInt(-2) >>
    /\ call.args[3] = Q(1, 10)
    /\ call.ret.ret[1] # RInt(3)
    /\ call.ret.calls[3].s # call.ret.calls[2].s

\* C9: the store is asked for (zoom, x, 2^zoom - 1 - y), where (x, y) is the
\* slippy-map tile of the point and zoom is 14; the flipped row lies in
\* 0 .. 2^zoom - 1 and flips back to y; the bounding box is that of the
\* unflipped (x, y, zoom).
C9_RowFlip ==
    call.fn = "get_elevation" =>
        LET lon5 == call.args[3]
            x    == call.ret.tile[1]
            y    == call.ret.tile[2]
        IN  /\ y \in 0..16383
            /\ (lon5 >= -18000000 /\ lon5 < 18000000) =>
                  x = ((lon5 + 18000000) * 64) \div 140625
            /\ \A i \in 1..Len(call.ret.queries) :
                  /\ call.ret.queries[i] = << 14, x, 16383 - y >>
                  /\ call.ret.queries[i][3] \in 0..16383
                  /\ 16383 - call.ret.queries[i][3] = y
            /\ call.ret.bounds_args # << >> => call.ret.bounds_args = << x, y, 14 >>

C9_Witness ==
    /\ call.fn = "get_elevation"
    /\ call.ret.queries = << << 14, 9557, 11626 >> >>
    /\ call.ret.bounds_args = << 9557, 4757, 14 >>
    /\ call.ret.ret.some

\* Whether check_collision reports a collision at the k-th point of the
\* trajectory (index k - 1).
CollidesAt(k) == check_collision(env, trajectory[k]).has

\* The indices evaluated so far are 0, 1, 2, ... without gap or repeat; no
\* evaluated point but the last one collides; the loop is at the point after
\* the last evaluated one; and it has ended either on a collision at the
\* last evaluated point or with every point evaluated.
ScanInOrder ==
    /\ Len(evaluated) <= Len(trajectory)
    /\ \A k \in 1..Len(evaluated) : evaluated[k] = k - 1
    /\ \A k \in 1..(Len(evaluated) - 1) : ~CollidesAt(k)
    /\ pc = "scan" =>
          /\ idx = Len(evaluated)
          /\ ~broke
          /\ Len(evaluated) > 0 => ~CollidesAt(Len(evaluated))
    /\ pc = "done" =>
          IF broke
          THEN Len(evaluated) > 0 /\ CollidesAt(Len(evaluated))
          ELSE /\ Len(evaluated) = Len(trajectory)
               /\ \A k \in 1..Len(trajectory) : ~CollidesAt(k)

\* C6: the scan evaluates the points in increasing index order, each at most
\* once, and passes no point after the first colliding one to
\* check_collision; when no point collides every point is evaluated; and the
\* scan terminates.
C6_ScanOrder == []ScanInOrder /\ <>(pc = "done")

\* A scan stopped by a collision in the middle of the trajectory.
C6_Witness ==
    /\ pc = "done"
    /\ broke
    /\ Len(evaluated) > 1
    /\ Len(evaluated) < Len(trajectory)

\* C7 as stated: every evaluated point has its warning level computed and
\* reported, whatever the level is, the colliding point included.
C7_ReportedForEveryPoint ==
    /\ Len(levels) = Len(evaluated)
    /\ Len(reports) = Len(evaluated)
    /\ \A k \in 1..Len(reports) :
          /\ reports[k].i = evaluated[k]
          /\ reports[k].level = levels[k]

\* C7, amended: the warning level is computed for every evaluated point, and
\* reported, in the order of the scan, for exactly the evaluated points
\* whose level is above NONE; the report of a colliding point is made before
\* the scan stops.
C7_ReportedWhenWarned ==
    /\ Len(levels) = Len(evaluated)
    /\ \A k \in 1..Len(evaluated) :
          /\ levels[k] =
                get_collision_warning_level(check_collision(env, trajectory[k]).dist)
          /\ levels[k] > 0 <=> \E j \in 1..Len(reports) : reports[j].i = evaluated[k]
    /\ \A j \in 1..Len(reports) :
          /\ reports[j].i + 1 \in 1..Len(evaluated)
          /\ reports[j].level = levels[reports[j].i + 1]
          /\ reports[j].distance = check_collision(env, trajectory[reports[j].i + 1]).dist
          /\ \A j2 \in 1..(j - 1) : reports[j2].i < reports[j].i
    /\ (pc = "done" /\ broke) =>
          /\ reports # << >>
          /\ reports[Len(reports)].i = evaluated[Len(evaluated)]

\* A finished scan whose first point was at level NONE, unreported, and
\* whose later points were reported.
C7_Witness ==
    /\ pc = "done"
    /\ Len(evaluated) > 1
    /\ levels[1] = 0
    /\ reports # << >>
    /\ reports[1].i > 0

\* C10: the time of point i is i * dt for the dt the trajectory was made
\* with: the i-th integrator step gets the time i * dt, and the scan reports
\* for point i the time i times the dt passed to predict_trajectory.
C10_TimeIsIndexTimesDt ==
    /\ \A k \in 1..Len(tlog) : tlog[k] = RMul(RInt(k - 1), PredictDt)
    /\ \A j \in 1..Len(reports) :
          reports[j].time = RMul(RInt(reports[j].i), PredictDt)

\* The part of C10 about the integrator alone.
C10_IntegratorTimes ==
    \A k \in 1..Len(tlog) : tlog[k] = RMul(RInt(k - 1), PredictDt)

\* C11: whenever check_collision reports a collision, the clearance it
\* returns is finite, negative and equal to the altitude minus the terrain
\* elevation at the point, and its warning level is HIGH (3); a clearance of
\* zero or more, or an unknown one, is no collision.
C11_CollisionIsHigh ==
    call.fn = "check_collision" =>
        LET el == get_elevation(call.args[1], Deg5(call.args[2]), Deg5(call.args[3]))
        IN  /\ call.ret.has =>
                  /\ ~call.ret.dist.inf
                  /\ RLt(call.ret.dist.v, Zero)
                  /\ el.ret.some
                  /\ call.ret.dist.v = RSub(call.args[4], el.ret.v)
                  /\ get_collision_warning_level(call.ret.dist) = 3
            /\ (call.ret.dist.inf \/ ~RLt(call.ret.dist.v, Zero)) => ~call.ret.has

\* A point one meter below the terrain: a collision with clearance -1.
C11_Witness ==
    /\ call.fn = "check_collision"
    /\ call.args[4] = RInt(2)
    /\ call.ret.has
    /\ call.ret.dist = Fin(RInt(-1))

\* A point on the terrain, clearance exactly zero, is no collision.
C11_OnTheTerrain ==
    /\ call.fn = "check_collision"
    /\ call.ret.dist = Fin(Zero)
    /\ ~call.ret.has

\* The consequence of C11 for the scan: the point a scan stops on has a
\* negative clearance and was given the level HIGH.
C11_ScanStopsAtHigh ==
    (pc = "done" /\ broke) =>
        /\ levels[Len(levels)] = 3
        /\ ~check_collision(env, trajectory[Len(evaluated)]).dist.inf
        /\ RLt(check_collision(env, trajectory[Len(evaluated)]).dist.v, Zero)

====
